---- MODULE Spec2Model ----
(***************************************************************************)
(* A model of md5dir (scripts/md5dir.py): the directory walk with its      *)
(* ignore patterns, the checksum of a file (plain and MP3 tag-skipping),   *)
(* the md5sum manifest file format, the manifest comparison and the three  *)
(* invocation modes of the command line.                                   *)
(*                                                                         *)
(* Strings that the program inspects character by character (paths,        *)
(* patterns, manifest lines) are sequences of one-character strings.       *)
(***************************************************************************)
EXTENDS Integers, Sequences, FiniteSets, TLC

VARIABLES
    walk,       \* the walker on its own: a tree, the ignore list, the result
    store,      \* the manifest file format on its own: written text, loaded map
    cmp,        \* the comparison on its own: two manifests and the report
    mp3,        \* the MP3 checksum on its own: a file's bytes and the range hashed
    fs,         \* runs: the files on disk, by absolute pathname
    cfg,        \* runs: the Md5dir object's attributes and the global args
    pc,         \* runs: where the process is
    idx,        \* runs: analyzeDirs' loop index (from 1)
    loc,        \* runs: analyzeDirs' local variable hashfile
    sums1,      \* runs: analyzeDirs' old manifest
    sums2,      \* runs: analyzeDirs' fresh manifest
    reps,       \* runs: the four sets of each comparison of the run, in order
    out,        \* runs: the lines logged and printed by the run
    exit,       \* runs: exit code of the process, or the exception that ended it
    hist,       \* runs: the reads and writes of manifest files by the run, in order
    runs,       \* runs: number of invocations so far
    snap        \* runs: each directory's files at its last default-mode snapshot run

runVars == <<fs, cfg, pc, idx, loc, sums1, sums2, reps, out, exit, hist, runs, snap>>
vars == <<walk, store, cmp, mp3, runVars>>

(***************************************************************************)
(* Bounds of the model.                                                    *)
(***************************************************************************)
MaxDepth == 2        \* nesting depth of the walked tree below its root

(***************************************************************************)
(* Strings.                                                                *)
(***************************************************************************)
IsPrefix(p, s) == Len(p) <= Len(s) /\ SubSeq(s, 1, Len(p)) = p

\* s[n:] of Python, n counted from 0
From(s, n) == SubSeq(s, n + 1, Len(s))

\* os.path.isabs
isabs(p) == p # <<>> /\ Head(p) = "/"

\* os.path.join(a, b)
join(a, b) ==
    IF isabs(b) THEN b
    ELSE IF a = <<>> \/ a[Len(a)] = "/" THEN a \o b
    ELSE a \o <<"/">> \o b

\* fnmatch.fnmatch(name, pat) on POSIX: "*" matches any run of characters
\* ("/" included), "?" any single character, anything else itself.
RECURSIVE fnmatch(_, _)
fnmatch(name, pat) ==
    IF pat = <<>> THEN name = <<>>
    ELSE IF Head(pat) = "*"
         THEN fnmatch(name, Tail(pat)) \/ (name # <<>> /\ fnmatch(Tail(name), pat))
    ELSE IF Head(pat) = "?"
         THEN name # <<>> /\ fnmatch(Tail(name), Tail(pat))
    ELSE name # <<>> /\ Head(name) = Head(pat) /\ fnmatch(Tail(name), Tail(pat))

\* Md5dir.ignore: at least one pattern matches
ignore(ignores, filename) ==
    \E i \in 1..Len(ignores) : fnmatch(filename, ignores[i])

\* Md5dir.log: nothing when quiet, else one line on the output (file or stdout)
log(o, quiet, msg) == IF quiet THEN o ELSE Append(o, msg)

(***************************************************************************)
(* The walker.  A tree is what os.walk(".", followlinks=True) yields: the  *)
(* directories top-down, each with its root ("." or "./x/y") and the       *)
(* entries os.walk reports as files.  An entry is a regular file or a      *)
(* symbolic link: "link" (target exists, relative), "abslink" (target      *)
(* exists, absolute), "broken" (os.stat fails with ENOENT) or "loop"       *)
(* (os.stat fails with another errno, such as ELOOP).                      *)
(***************************************************************************)
File(n)       == [name |-> <<n>>, kind |-> "file",    target |-> <<>>]
Broken(n)     == [name |-> <<n>>, kind |-> "broken",  target |-> <<"x">>]
Loop(n)       == [name |-> <<n>>, kind |-> "loop",    target |-> <<n>>]
Link(n, t)    == [name |-> <<n>>, kind |-> "link",    target |-> <<t>>]
AbsLink(n)    == [name |-> <<n>>, kind |-> "abslink", target |-> <<"/", "t">>]

Listings ==
    { <<>>, <<File("o")>>, <<File("p")>>, <<File("o"), File("p")>>,
      <<Broken("o"), File("p")>>, <<Loop("o"), File("p")>>,
      <<Link("o", "p"), File("p")>>, <<AbsLink("o"), File("p")>> }

\* the root os.walk reports for the directory at depth k: ".", "./b", "./b/s", ...
RECURSIVE WalkRoot(_)
WalkRoot(k) ==
    IF k = 0 THEN <<".">>
    ELSE WalkRoot(k - 1) \o <<"/", IF k % 2 = 1 THEN "b" ELSE "s">>

Trees ==
    { [k \in 1..(MaxDepth + 1) |-> [root |-> WalkRoot(k - 1), files |-> l[k]]] :
        l \in [1..(MaxDepth + 1) -> Listings] }

IgnoreSets ==
    { <<>>,
      << <<"b">> >>,
      << <<".", "/", "b">> >>,
      << <<"*", "b", "*">> >>,
      << <<"o">> >>,
      << <<"b">>, <<"b", "/", "s", "/", "p">> >> }

\* the mutant of walkFiles below: a broken link ends the walk with its OSError
RECURSIVE walkFilesAbort(_, _, _, _, _, _)
walkFilesAbort(root, files, i, ignores, quiet, acc) ==
    IF i > Len(files) \/ acc.exc # "none" THEN acc
    ELSE
      LET e     == files[i]
          fname == join(From(root, 2), e.name)
          next  ==
            IF ignore(ignores, fname) THEN acc
            ELSE IF e.kind = "file"
                 THEN [acc EXCEPT !.flist = Append(@, fname)]
            ELSE IF e.kind = "broken"
                 THEN [acc EXCEPT !.exc = "OSError"]
            ELSE IF e.kind = "loop"
                 THEN [acc EXCEPT !.exc = "OSError"]
            ELSE [acc EXCEPT !.flist =
                    Append(@, IF isabs(e.target) THEN e.target
                              ELSE join(From(root, 2), e.target))]
      IN walkFilesAbort(root, files, i + 1, ignores, quiet, next)

\* masterList, lines 144-162: the entries of one directory, from the i-th on.
\* acc = [flist, out, exc]; an exception ends the walk.
RECURSIVE walkFiles(_, _, _, _, _, _)
walkFiles(root, files, i, ignores, quiet, acc) ==
    IF i > Len(files) \/ acc.exc # "none" THEN acc
    ELSE
      LET e     == files[i]
          fname == join(From(root, 2), e.name)
          next  ==
            IF ignore(ignores, fname) THEN acc
            ELSE IF e.kind = "file"
                 THEN [acc EXCEPT !.flist = Append(@, fname)]
            ELSE IF e.kind = "broken"
                 THEN [acc EXCEPT !.out = log(@, quiet, <<"BROKEN", fname>>)]
            ELSE IF e.kind = "loop"
                 THEN [acc EXCEPT !.exc = "OSError"]
            ELSE [acc EXCEPT !.flist =
                    Append(@, IF isabs(e.target) THEN e.target
                              ELSE join(From(root, 2), e.target))]
      IN walkFiles(root, files, i + 1, ignores, quiet, next)

\* masterList, lines 141-143: the directories os.walk yields, from the k-th on.
\* A directory whose root matches is skipped; os.walk still yields the
\* directories below it.
RECURSIVE walkDirs(_, _, _, _, _)
walkDirs(tree, k, ignores, quiet, acc) ==
    IF k > Len(tree) \/ acc.exc # "none" THEN acc
    ELSE walkDirs(tree, k + 1, ignores, quiet,
                  IF ignore(ignores, tree[k].root) THEN acc
                  ELSE walkFiles(tree[k].root, tree[k].files, 1, ignores, quiet, acc))

\* Md5dir.masterList(start): the list of files, the lines logged, the exception
masterList(tree, ignores, quiet, o) ==
    walkDirs(tree, 1, ignores, quiet, [flist |-> <<>>, out |-> o, exc |-> "none"])

(***************************************************************************)
(* The manifest file.  A manifest is a function from paths to checksums;   *)
(* the text of a manifest file is a sequence of characters.                *)
(***************************************************************************)
HashLen == 32        \* {32} of md5line: the length of a hex digest

HexChars == {"0", "1", "2", "3", "4", "5", "6", "7", "8", "9",
             "a", "b", "c", "d", "e", "f"}

\* the character codes sorted() compares strings by
Ord(c) ==
    CASE c = "\n" -> 10 [] c = " " -> 32 [] c = "#" -> 35 [] c = "*" -> 42
      [] c = "." -> 46 [] c = "/" -> 47 [] c = "0" -> 48 [] c = "1" -> 49
      [] c = "2" -> 50 [] c = "a" -> 97 [] c = "b" -> 98 [] c = "c" -> 99
      [] c = "d" -> 100 [] c = "m" -> 109 [] c = "o" -> 111 [] c = "p" -> 112
      [] c = "s" -> 115 [] c = "t" -> 116 [] c = "x" -> 120 [] c = "z" -> 122
      [] OTHER -> 127

\* a < b for Python strings
RECURSIVE StrLess(_, _)
StrLess(a, b) ==
    IF b = <<>> THEN FALSE
    ELSE IF a = <<>> THEN TRUE
    ELSE IF Head(a) = Head(b) THEN StrLess(Tail(a), Tail(b))
    ELSE Ord(Head(a)) < Ord(Head(b))

\* sorted(checksums, key=lambda x: x[0]): the paths in ascending order
RECURSIVE sorted(_)
sorted(S) ==
    IF S = {} THEN <<>>
    ELSE LET m == CHOOSE x \in S : \A y \in S \ {x} : StrLess(x, y)
         IN <<m>> \o sorted(S \ {m})

EmptyDict == [p \in {} |-> <<>>]

\* d[k] = v of Python
Put(d, k, v) == [p \in DOMAIN d \cup {k} |-> IF p = k THEN v ELSE d[p]]

\* "%s  %s\n" % (md5sum, fname)
sumline(md5sum, fname) == md5sum \o <<" ", " ">> \o fname \o <<"\n">>

RECURSIVE sumlines(_, _, _)
sumlines(checksums, order, i) ==
    IF i > Len(order) THEN <<>>
    ELSE sumline(checksums[order[i]], order[i]) \o sumlines(checksums, order, i + 1)

\* Md5dir.writesums: the text written to the manifest file
writesums(root, checksums) ==
    <<"#", "m", "d", "5", "d", "i", "r", " ">> \o root \o <<"\n">>
        \o sumlines(checksums, sorted(DOMAIN checksums), 1)

\* "for line in f": the lines of a text, each with its newline when it has one
RECURSIVE lines(_)
lines(text) ==
    IF text = <<>> THEN <<>>
    ELSE LET nl == {i \in 1..Len(text) : text[i] = "\n"}
         IN IF nl = {} THEN <<text>>
            ELSE LET i == CHOOSE x \in nl : \A y \in nl : x <= y
                 IN <<SubSeq(text, 1, i)>> \o lines(SubSeq(text, i + 1, Len(text)))

\* the part of a line "." and "$" of md5line see: "$" matches at the end or
\* before a final newline, "." matches no newline (rstrip("") strips nothing)
body(line) ==
    IF line # <<>> /\ line[Len(line)] = "\n" THEN SubSeq(line, 1, Len(line) - 1)
    ELSE line

\* md5line = ^([0-9a-f]{32}) [\ \*](.*)$ : does the line match
md5line(line) ==
    /\ Len(body(line)) >= HashLen + 2
    /\ \A i \in 1..HashLen : body(line)[i] \in HexChars
    /\ body(line)[HashLen + 1] = " "
    /\ body(line)[HashLen + 2] \in {" ", "*"}

group1(line) == SubSeq(body(line), 1, HashLen)
group2(line) == SubSeq(body(line), HashLen + 3, Len(body(line)))

RECURSIVE parselines(_, _, _)
parselines(ls, i, d) ==
    IF i > Len(ls) THEN d
    ELSE parselines(ls, i + 1,
                    IF md5line(ls[i]) THEN Put(d, group2(ls[i]), group1(ls[i])) ELSE d)

\* Md5dir.getDictionary on the text of an existing file
getDictionary(text) == parselines(lines(text), 1, EmptyDict)

\* a hex digest: 32 times the same digit, one per content
Digest(c) == [i \in 1..HashLen |-> c]

Manifests(P, S) == UNION { [D -> S] : D \in SUBSET P }

StorePaths == { <<"a">>, <<" ", "a">>, <<"*", "b">>, <<"a", " ", "b">> }
StoreSums  == { Digest("0"), Digest("a") }
StoreRoots == { <<"d">>, <<"/", "d", " ", "x">>, <<"d", "\n", "x">>,
                <<"d", "\n">> \o Digest("c") \o <<" ", " ", "z">> }

IdleStore == [stage |-> "idle"]

InitStore ==
    \E M \in Manifests(StorePaths, StoreSums), r \in StoreRoots :
        store = [stage |-> "new", M |-> M, root |-> r]

\* writesums(hashfile, root, M.iteritems())
WriteOut ==
    /\ store.stage = "new"
    /\ store' = [stage |-> "saved", M |-> store.M, root |-> store.root,
                 text |-> writesums(store.root, store.M)]
    /\ UNCHANGED <<walk, cmp, mp3, runVars>>

\* getDictionary(hashfile)
ReadBack ==
    /\ store.stage = "saved"
    /\ store' = [stage |-> "loaded", M |-> store.M, root |-> store.root,
                 text |-> store.text, d |-> getDictionary(store.text)]
    /\ UNCHANGED <<walk, cmp, mp3, runVars>>

(***************************************************************************)
(* The comparison.                                                         *)
(***************************************************************************)
NPaths == 3          \* number of paths the compared manifests draw from

\* dictdiff.DictDiffer(current_dict, past_dict) and its four sets
DictDiffer(current, past) ==
    LET both == DOMAIN current \cap DOMAIN past
    IN [added     |-> DOMAIN current \ both,
        removed   |-> DOMAIN past \ both,
        changed   |-> {p \in both : past[p] # current[p]},
        unchanged |-> {p \in both : past[p] = current[p]}]

\* Md5dir.outputFileList: one line per file the ignore list does not match
RECURSIVE outputFileList(_, _, _, _, _, _)
outputFileList(o, quiet, ignores, name, filelist, i) ==
    IF i > Len(filelist) THEN o
    ELSE outputFileList(
            IF ignore(ignores, filelist[i]) THEN o
            ELSE log(o, quiet, <<name, filelist[i]>>),
            quiet, ignores, name, filelist, i + 1)

\* the mutant of comparemd5dict below: the two manifests the other way round
comparemd5dictSwapped(d1, d2, root, o, quiet, ignores) ==
    LET diff == DictDiffer(d1, d2)
        o1 == outputFileList(o, quiet, ignores, "ADDED", sorted(diff.added), 1)
        o2 == outputFileList(o1, quiet, ignores, "DELETED", sorted(diff.removed), 1)
        o3 == outputFileList(o2, quiet, ignores, "CHANGED", sorted(diff.changed), 1)
        o4 == log(o3, quiet, <<"LOCATION", root>>)
    IN [added |-> diff.added, deleted |-> diff.removed, changed |-> diff.changed,
        unchanged |-> diff.unchanged,
        out |-> log(o4, quiet, <<"STATUS", Cardinality(diff.unchanged),
                                 Cardinality(diff.added), Cardinality(diff.removed),
                                 Cardinality(diff.changed)>>)]

\* Md5dir.comparemd5dict(d1, d2, root): d1 is the old manifest, d2 the new one.
\* The result holds the four sets and the output with the lines logged.
comparemd5dict(d1, d2, root, o, quiet, ignores) ==
    LET diff == DictDiffer(d2, d1)
        o1 == outputFileList(o, quiet, ignores, "ADDED", sorted(diff.added), 1)
        o2 == outputFileList(o1, quiet, ignores, "DELETED", sorted(diff.removed), 1)
        o3 == outputFileList(o2, quiet, ignores, "CHANGED", sorted(diff.changed), 1)
        o4 == log(o3, quiet, <<"LOCATION", root>>)
    IN [added |-> diff.added, deleted |-> diff.removed, changed |-> diff.changed,
        unchanged |-> diff.unchanged,
        out |-> log(o4, quiet, <<"STATUS", Cardinality(diff.unchanged),
                                 Cardinality(diff.added), Cardinality(diff.removed),
                                 Cardinality(diff.changed)>>)]

PathNames == <<"a", "b", "c", "d", "e", "f">>
CmpPaths  == { <<PathNames[i]>> : i \in 1..NPaths }
CmpSums   == { Digest("0"), Digest("1") }
CmpIgnores == { <<>>, << <<"a">> >> }

IdleCmp == [stage |-> "idle"]

InitCmp ==
    \E a \in Manifests(CmpPaths, CmpSums), b \in Manifests(CmpPaths, CmpSums),
       q \in BOOLEAN, ig \in CmpIgnores :
        cmp = [stage |-> "new", d1 |-> a, d2 |-> b, quiet |-> q, ignores |-> ig]

\* comparemd5dict(d1, d2, root) as compareFiles calls it on two loaded manifests
Compare ==
    /\ cmp.stage = "new"
    /\ cmp' = [stage |-> "done", d1 |-> cmp.d1, d2 |-> cmp.d2, quiet |-> cmp.quiet,
               ignores |-> cmp.ignores,
               r |-> comparemd5dict(cmp.d1, cmp.d2, <<"/">>, <<>>, cmp.quiet,
                                    cmp.ignores)]
    /\ UNCHANGED <<walk, store, mp3, runVars>>

(***************************************************************************)
(* Checksums.  A file's content is a sequence of byte values.  md5 is      *)
(* abstracted to a one-digit checksum of the bytes, repeated HashLen       *)
(* times: equal contents have equal digests, and the contents "0" and "1"  *)
(* the runs use have different ones.                                       *)
(***************************************************************************)
MaxBody    == 2      \* largest ID3v2 body size N of the MP3 files built
MaxPayload == 2      \* largest payload size K of the MP3 files built
TagLen     == 128    \* size of an ID3v1 tag: f.seek(-128, 2), finish -= 128
FooterLen  == 10     \* f.seek(10, 1)

HexDigit == <<"0", "1", "2", "3", "4", "5", "6", "7", "8", "9",
              "a", "b", "c", "d", "e", "f">>

RECURSIVE Sum(_)
Sum(s) ==
    IF Len(s) = 0 THEN 0
    ELSE IF Len(s) = 1 THEN s[1]
    ELSE Sum(SubSeq(s, 1, Len(s) \div 2)) + Sum(SubSeq(s, Len(s) \div 2 + 1, Len(s)))

\* md5.new(); h.update(bytes); h.hexdigest()
hexdigest(bytes) == Digest(HexDigit[(Sum(bytes) % 16) + 1])

TAG == <<84, 65, 71>>
ID3 == <<73, 68, 51>>

\* f.seek(pos); f.read(n): n bytes from pos, up to the end of the file; all
\* the rest of the file when n is negative
read(bytes, pos, n) ==
    IF pos >= Len(bytes) THEN <<>>
    ELSE IF n < 0 THEN SubSeq(bytes, pos + 1, Len(bytes))
    ELSE SubSeq(bytes, pos + 1, IF pos + n > Len(bytes) THEN Len(bytes) ELSE pos + n)

\* x & (1 << 4)
Bit4(x) == (x \div 16) % 2 = 1

\* Md5dir.calculateUID on the bytes of a file that opens
calculateUID(bytes) ==
    IF Len(bytes) < TagLen
    THEN [exc |-> "IOError", start |-> 0, finish |-> Len(bytes), data |-> <<>>]
    ELSE
      LET finish == IF read(bytes, Len(bytes) - TagLen, 3) = TAG
                    THEN Len(bytes) - TagLen ELSE Len(bytes)
          flags  == bytes[4]
          bs     == SubSeq(bytes, 5, 8)
          bodysize == bs[1] * 2^21 + bs[2] * 2^14 + bs[3] * 2^7 + bs[4]
          start  == IF read(bytes, 0, 3) = ID3
                    THEN 3 + 1 + 4 + bodysize + (IF Bit4(flags) THEN FooterLen ELSE 0)
                    ELSE 0
      IN [exc |-> "none", start |-> start, finish |-> finish,
          data |-> read(bytes, start, finish - start)]

Fill(n, b) == [i \in 1..n |-> b]

\* the bytes of an MP3 file: an ID3v2 tag (header, body of n bytes, footer when
\* the flags say so), the payload, an ID3v1 tag
Mp3File(v2, major, flags, n, payload, v1) ==
    (IF v2 THEN ID3 \o <<major, 0, flags, 0, 0, 0, n>> \o Fill(n, 7)
                \o (IF Bit4(flags) THEN Fill(FooterLen, 9) ELSE <<>>)
     ELSE <<>>)
    \o payload
    \o (IF v1 THEN TAG \o Fill(TagLen - 3, 0) ELSE <<>>)

Payloads == UNION { [1..k -> {1, 2}] : k \in 0..MaxPayload }

IdleMp3 == [stage |-> "idle"]

InitMp3 ==
    \E v2 \in BOOLEAN, major \in {3, 4}, flags \in {0, 16, 64}, n \in 0..MaxBody,
       p \in Payloads, v1 \in BOOLEAN :
        mp3 = [stage |-> "new", v2 |-> v2, flags |-> flags, n |-> n, payload |-> p,
               v1 |-> v1, bytes |-> Mp3File(v2, major, flags, n, p, v1)]

\* calcsum(filepath) in MP3 mode on a file named *.mp3
CalcUID ==
    /\ mp3.stage = "new"
    /\ mp3' = [mp3 EXCEPT !.stage = "done"] @@ [r |-> calculateUID(mp3.bytes)]
    /\ UNCHANGED <<walk, store, cmp, runVars>>

(***************************************************************************)
(* Runs of the command line.  The disk holds two directories, d and e      *)
(* (relative to the working directory /w), their data files, the md5sum    *)
(* file of each, and two manifest files /h and /k outside them.            *)
(***************************************************************************)
MaxRuns == 1         \* invocations of the program in one behaviour

Cwd     == <<"/", "w">>
DirD    == <<"d">>
DirE    == <<"e">>
NoDir   == <<"x">>                       \* a path that does not exist
H1      == <<"/", "h">>
H2      == <<"/", "k">>
Md5sum  == <<"m", "d", "5", "s", "u", "m">>   \* Md5dir.hashfile, the default name
Mp3Name == <<"c", ".", "m", "p", "3">>
Mp3Ext  == <<".", "m", "p", "3">>
Dirs    == {DirD, DirE}

\* os.path.abspath
abspath(path) == IF isabs(path) THEN path ELSE join(Cwd, path)

\* str.endswith
endswith(str, suffix) ==
    Len(suffix) <= Len(str) /\ From(str, Len(str) - Len(suffix)) = suffix

\* os.path.dirname
dirname(path) ==
    LET slashes == {i \in 1..Len(path) : path[i] = "/"}
        last == IF slashes = {} THEN 0
                ELSE CHOOSE i \in slashes : \A j \in slashes : j <= i
    IN IF last > 1 THEN SubSeq(path, 1, last - 1) ELSE SubSeq(path, 1, last)

\* file contents
Absent       == [t |-> "absent", v |-> <<>>]
NoPerm       == [t |-> "noperm", v |-> <<>>]    \* exists, open() fails
Bytes(b)     == [t |-> "bytes", v |-> b]
Text(chars)  == [t |-> "text", v |-> chars]

DataNames(dir) == IF dir = DirD THEN {<<"a">>, Mp3Name} ELSE {<<"a">>}

\* the contents the model gives a data file: "0", "1", unreadable; for the
\* MP3 file a one-byte file, a tagged file, unreadable
DataContents(dir, name) ==
    IF name = Mp3Name
    THEN {Bytes(<<49>>), Bytes(Mp3File(TRUE, 3, 0, 1, <<1>>, TRUE)), NoPerm}
    ELSE IF dir = DirD THEN {Bytes(<<48>>), Bytes(<<49>>), NoPerm}
    ELSE {Bytes(<<49>>)}

DataFiles == { x \in Dirs \X {<<"a">>, Mp3Name} : x[2] \in DataNames(x[1]) }

FsPaths ==
    { abspath(join(f[1], f[2])) : f \in DataFiles }
        \cup { abspath(join(dir, Md5sum)) : dir \in Dirs }
        \cup {H1, H2}

isdir(path)  == path \in Dirs
isfile(path) == abspath(path) \in FsPaths /\ fs[abspath(path)].t # "absent"

\* the bytes open(path, "rb").read() returns
bytesOf(c) == IF c.t = "text" THEN [i \in 1..Len(c.v) |-> Ord(c.v[i])] ELSE c.v

\* the data files of a directory, as the last snapshot run found them
Listing(dir) == [n \in DataNames(dir) |-> fs[abspath(join(dir, n))]]

FileEntry(name) == [name |-> name, kind |-> "file", target |-> <<>>]

RECURSIVE entries(_, _)
entries(names, i) ==
    IF i > Len(names) THEN <<>> ELSE <<FileEntry(names[i])>> \o entries(names, i + 1)

\* what os.walk(".") yields in a directory of the model: one level, no links
TreeOf(dir) ==
    << [root  |-> <<".">>,
        files |-> entries(sorted({n \in DataNames(dir) \cup {Md5sum} :
                                    fs[abspath(join(dir, n))].t # "absent"}), 1)] >>

Minus1 == <<"-1">>   \* calcsum's return value for a file it cannot read

\* Md5dir.calcsum(filepath): [sum, out, exc]
calcsum(filepath, mp3mode, quiet, o) ==
    LET c == fs[abspath(filepath)]
    IN IF mp3mode /\ endswith(filepath, Mp3Ext)
       THEN IF c.t \in {"absent", "noperm"}
            THEN [sum |-> Minus1, out |-> o, exc |-> "IOError"]
            ELSE LET r == calculateUID(bytesOf(c))
                 IN [sum |-> hexdigest(r.data), out |-> o, exc |-> r.exc]
       ELSE IF c.t \in {"absent", "noperm"}
            THEN [sum |-> Minus1, out |-> log(o, quiet, <<"Can't open", filepath>>),
                  exc |-> "none"]
            ELSE [sum |-> hexdigest(bytesOf(c)), out |-> o, exc |-> "none"]

\* makesums, lines 171-174: the files of the list, from the i-th on
RECURSIVE sumFiles(_, _, _, _, _, _)
sumFiles(root, flist, i, mp3mode, quiet, acc) ==
    IF i > Len(flist) \/ acc.exc # "none" THEN acc
    ELSE LET r == calcsum(join(root, flist[i]), mp3mode, quiet, acc.out)
         IN sumFiles(root, flist, i + 1, mp3mode, quiet,
                     [checksums |-> IF r.exc = "none" /\ r.sum # Minus1
                                    THEN Put(acc.checksums, flist[i], r.sum)
                                    ELSE acc.checksums,
                      out |-> r.out, exc |-> r.exc])

\* Md5dir.makesums(root): [checksums, out, exc]
makesums(root, c, o) ==
    LET ml == masterList(TreeOf(root), c.ignores, c.quiet, o)
    IN IF ml.exc # "none"
       THEN [checksums |-> EmptyDict, out |-> ml.out, exc |-> ml.exc]
       ELSE sumFiles(root, ml.flist, 1, c.mp3mode, c.quiet,
                     [checksums |-> EmptyDict, out |-> ml.out, exc |-> "none"])

\* writesums, line 319: the file written
pathname(hashfile, root) ==
    abspath(IF isabs(hashfile) THEN hashfile ELSE join(root, hashfile))

\* Md5dir.getDictionary(filename)
getDictionaryOf(filename) ==
    IF ~isfile(filename) THEN EmptyDict ELSE getDictionary(fs[abspath(filename)].v)

\* the class attributes, lines 67-76, and no args
Defaults ==
    [hashfile |-> Md5sum, mp3mode |-> FALSE, comparefiles |-> FALSE, twodir |-> FALSE,
     quiet |-> FALSE, ignores |-> <<>>, hashfiles |-> <<>>, help |-> FALSE,
     args |-> <<>>]

\* the command lines the model runs: getopt's options and args
Options ==
    { [help |-> h, mp3 |-> m, comparefiles |-> c, twodir |-> t, quiet |-> q,
       hashfile |-> hfs, args |-> a] :
        h \in {FALSE}, m \in BOOLEAN, c \in BOOLEAN, t \in BOOLEAN, q \in {FALSE},
        hfs \in {<<>>, <<H1>>, <<H1, H2>>},
        a \in {<<>>, <<DirD>>, <<DirD, DirE>>, <<NoDir, DirE>>, <<H1, H2>>, <<DirD, H1>>} }

CommandLines ==
    { o \in Options :
        /\ ~(o.comparefiles /\ o.twodir)
        /\ o.comparefiles => (~o.mp3 /\ o.hashfile = <<>>)
        /\ o.twodir => o.hashfile = <<>>
        /\ (o.args \in {<<H1, H2>>, <<DirD, H1>>}) => (o.comparefiles \/ o.twodir)
        /\ o.mp3 => o.args \in {<<DirD>>, <<DirD, DirE>>} }
    \cup
    { [help |-> TRUE, mp3 |-> FALSE, comparefiles |-> FALSE, twodir |-> FALSE,
       quiet |-> FALSE, hashfile |-> <<>>, args |-> <<>>],
      [help |-> FALSE, mp3 |-> FALSE, comparefiles |-> FALSE, twodir |-> FALSE,
       quiet |-> TRUE, hashfile |-> <<H1>>, args |-> <<DirD>>] }

\* Md5dir.parseArgs: the attributes the options set
parseArgs(o) ==
    [hashfile     |-> IF o.hashfile # <<>> THEN abspath(o.hashfile[1]) ELSE Md5sum,
     mp3mode      |-> o.mp3,
     comparefiles |-> o.comparefiles,
     twodir       |-> o.twodir,
     quiet        |-> o.quiet,
     ignores      |-> <<>>,
     hashfiles    |-> o.hashfile,
     help         |-> o.help,
     args         |-> o.args]

NoSnap == <<>>
Unbound == <<>>

EmptyDisk == [p \in FsPaths |-> Absent]

\* the manifest file an earlier run over a directory holding a = "1" left
EarlierManifest == Text(writesums(DirD, [n \in {<<"a">>} |-> hexdigest(<<49>>)]))

\* no process yet: the class attributes and nothing in memory
NoProcess ==
    /\ cfg = Defaults
    /\ pc = "idle"
    /\ idx = 0
    /\ loc = Unbound
    /\ sums1 = EmptyDict
    /\ sums2 = EmptyDict
    /\ reps = <<>>
    /\ out = <<>>
    /\ exit = "none"
    /\ hist = <<>>
    /\ runs = 0
    /\ snap = [d \in Dirs |-> NoSnap]

IdleRun == fs = EmptyDisk /\ NoProcess

\* before the first run: empty directories, and /h absent or left by an
\* earlier run
InitRun ==
    /\ fs \in {EmptyDisk, [EmptyDisk EXCEPT ![H1] = EarlierManifest]}
    /\ NoProcess

\* the process ends
Exit(code, o) ==
    /\ pc' = "exited"
    /\ exit' = code
    /\ out' = o

\* the user creates, rewrites or removes a data file between two runs
Create ==
    \E f \in DataFiles : \E c \in DataContents(f[1], f[2]) :
        /\ pc = "idle" /\ runs < MaxRuns
        /\ fs[abspath(join(f[1], f[2]))] = Absent
        /\ fs' = [fs EXCEPT ![abspath(join(f[1], f[2]))] = c]
        /\ UNCHANGED <<cfg, pc, idx, loc, sums1, sums2, reps, out, exit, hist, runs, snap>>
        /\ UNCHANGED <<walk, store, cmp, mp3>>

Modify ==
    \E f \in DataFiles : \E c \in DataContents(f[1], f[2]) :
        /\ pc = "idle" /\ runs < MaxRuns
        /\ fs[abspath(join(f[1], f[2]))] \notin {Absent, c}
        /\ fs' = [fs EXCEPT ![abspath(join(f[1], f[2]))] = c]
        /\ UNCHANGED <<cfg, pc, idx, loc, sums1, sums2, reps, out, exit, hist, runs, snap>>
        /\ UNCHANGED <<walk, store, cmp, mp3>>

Delete ==
    \E f \in DataFiles :
        /\ pc = "idle" /\ runs < MaxRuns
        /\ fs[abspath(join(f[1], f[2]))] # Absent
        /\ fs' = [fs EXCEPT ![abspath(join(f[1], f[2]))] = Absent]
        /\ UNCHANGED <<cfg, pc, idx, loc, sums1, sums2, reps, out, exit, hist, runs, snap>>
        /\ UNCHANGED <<walk, store, cmp, mp3>>

\* __main__, lines 327-348: the options are parsed and the mode is chosen
Main ==
    \E o \in CommandLines :
        /\ pc = "idle" /\ runs < MaxRuns
        /\ runs' = runs + 1
        /\ cfg' = parseArgs(o)
        /\ IF o.help THEN Exit("0", <<<<"PRINT", "usage">>>>)
           ELSE IF Len(o.args) = 0
                THEN Exit("1", <<<<"PRINT", "no directories given">>>>)
           ELSE /\ pc' = IF o.comparefiles THEN "compareFiles"
                         ELSE IF o.twodir THEN "compareDirs" ELSE "analyzeDirs"
                /\ UNCHANGED <<exit, out>>
        /\ UNCHANGED <<fs, idx, loc, sums1, sums2, reps, hist, snap>>
        /\ UNCHANGED <<walk, store, cmp, mp3>>

Event(op, path) == [op |-> op, path |-> path, before |-> fs[path]]

Sets(r, root) ==
    [root |-> root, added |-> r.added, deleted |-> r.deleted, changed |-> r.changed,
     unchanged |-> r.unchanged]

\* compareFiles, line 199
twoFiles(args) == Len(args) = 2 /\ isfile(args[1]) /\ isfile(args[2])

\* compareDirs, line 210
twoDirs(args) == Len(args) = 2 /\ isdir(args[1]) /\ isdir(args[2])

\* the mutant of hashfilesMismatch below: only too many hashfiles are refused
hashfilesTooMany(c) == c.hashfiles # <<>> /\ Len(c.hashfiles) > Len(c.args)

\* analyzeDirs, line 223
hashfilesMismatch(c) == c.hashfiles # <<>> /\ Len(c.hashfiles) # Len(c.args)

\* Md5dir.compareFiles and lines 340-342 of __main__
CompareFiles ==
    /\ pc = "compareFiles"
    /\ IF ~twoFiles(cfg.args)
       THEN /\ Exit("1", Append(out, <<"PRINT", "two file pathnames expected">>))
            /\ UNCHANGED <<reps, hist>>
       ELSE LET r == comparemd5dict(getDictionaryOf(cfg.args[1]),
                                    getDictionaryOf(cfg.args[2]),
                                    abspath(dirname(cfg.args[1])),
                                    out, cfg.quiet, cfg.ignores)
            IN /\ Exit("0", r.out)
               /\ reps' = Append(reps, Sets(r, abspath(dirname(cfg.args[1]))))
               /\ hist' = hist \o <<Event("read", abspath(cfg.args[1])),
                                    Event("read", abspath(cfg.args[2]))>>
    /\ UNCHANGED <<fs, cfg, idx, loc, sums1, sums2, runs, snap>>
    /\ UNCHANGED <<walk, store, cmp, mp3>>

\* Md5dir.compareDirs and lines 344-346 of __main__
CompareDirs ==
    /\ pc = "compareDirs"
    /\ IF ~twoDirs(cfg.args)
       THEN /\ Exit("1", Append(out, <<"PRINT", "two directory pathnames expected">>))
            /\ UNCHANGED <<fs, reps, hist>>
       ELSE
         LET r1 == makesums(cfg.args[1], cfg, out)
             r2 == makesums(cfg.args[2], cfg, r1.out)
             p1 == pathname(cfg.hashfile, cfg.args[1])
             p2 == pathname(cfg.hashfile, cfg.args[2])
             t1 == Text(writesums(cfg.args[1], r1.checksums))
             t2 == Text(writesums(cfg.args[2], r2.checksums))
             r  == comparemd5dict(r1.checksums, r2.checksums, abspath(cfg.args[1]),
                                  r2.out, cfg.quiet, cfg.ignores)
         IN IF r1.exc # "none"
            THEN Exit(r1.exc, r1.out) /\ UNCHANGED <<fs, reps, hist>>
            ELSE IF r2.exc # "none"
            THEN Exit(r2.exc, r2.out) /\ UNCHANGED <<fs, reps, hist>>
            ELSE /\ fs' = [fs EXCEPT ![p1] = t1, ![p2] = t2]
                 /\ hist' = hist \o
                      <<Event("write", p1),
                        [op |-> "write", path |-> p2,
                         before |-> IF p2 = p1 THEN t1 ELSE fs[p2]]>>
                 /\ reps' = Append(reps, Sets(r, abspath(cfg.args[1])))
                 /\ Exit("0", r.out)
    /\ UNCHANGED <<cfg, idx, loc, sums1, sums2, runs, snap>>
    /\ UNCHANGED <<walk, store, cmp, mp3>>

\* analyzeDirs, lines 223-224, and lines 348-351 of __main__
AnalyzeDirs ==
    /\ pc = "analyzeDirs"
    /\ IF hashfilesMismatch(cfg)
       THEN /\ Exit("1", Append(out, <<"PRINT", "number of hashfiles is different">>))
            /\ UNCHANGED idx
       ELSE /\ pc' = "loop"
            /\ idx' = 1
            /\ UNCHANGED <<exit, out>>
    /\ UNCHANGED <<fs, cfg, loc, sums1, sums2, reps, hist, runs, snap>>
    /\ UNCHANGED <<walk, store, cmp, mp3>>

\* analyzeDirs, lines 227 and 240: no argument is left, the run ends
Return ==
    /\ pc = "loop"
    /\ idx > Len(cfg.args)
    /\ Exit("0", out)
    /\ UNCHANGED <<fs, cfg, idx, loc, sums1, sums2, reps, hist, runs, snap>>
    /\ UNCHANGED <<walk, store, cmp, mp3>>

\* analyzeDirs, lines 228-230
NotADirectory ==
    /\ pc = "loop"
    /\ idx <= Len(cfg.args)
    /\ ~isdir(cfg.args[idx])
    /\ out' = Append(out, <<"PRINT", "is not a directory", cfg.args[idx]>>)
    /\ idx' = idx + 1
    /\ UNCHANGED <<fs, cfg, pc, loc, sums1, sums2, reps, exit, hist, runs, snap>>
    /\ UNCHANGED <<walk, store, cmp, mp3>>

\* analyzeDirs, lines 231-235: the old manifest is loaded.  hashfile is a local
\* variable of analyzeDirs, assigned at line 232 only: line 235 reads it unbound.
Load ==
    /\ pc = "loop"
    /\ idx <= Len(cfg.args)
    /\ isdir(cfg.args[idx])
    /\ IF cfg.hashfiles # <<>>
       THEN IF idx > Len(cfg.hashfiles)
            THEN Exit("IndexError", out) /\ UNCHANGED <<loc, sums1, hist>>
            ELSE /\ loc' = abspath(cfg.hashfiles[idx])
                 /\ sums1' = getDictionaryOf(cfg.hashfile)
                 /\ hist' = Append(hist, Event("read", abspath(cfg.hashfile)))
                 /\ pc' = "makesums"
                 /\ UNCHANGED <<exit, out>>
       ELSE IF loc = Unbound
            THEN Exit("UnboundLocalError", out) /\ UNCHANGED <<loc, sums1, hist>>
            ELSE /\ sums1' = getDictionaryOf(join(cfg.args[idx], loc))
                 /\ hist' = Append(hist, Event("read", abspath(join(cfg.args[idx], loc))))
                 /\ pc' = "makesums"
                 /\ UNCHANGED <<loc, exit, out>>
    /\ UNCHANGED <<fs, cfg, idx, sums2, reps, runs, snap>>
    /\ UNCHANGED <<walk, store, cmp, mp3>>

\* analyzeDirs, line 236
MakeSums ==
    /\ pc = "makesums"
    /\ LET r == makesums(cfg.args[idx], cfg, out)
       IN IF r.exc # "none"
          THEN Exit(r.exc, r.out) /\ UNCHANGED sums2
          ELSE /\ sums2' = r.checksums
               /\ out' = r.out
               /\ pc' = "writesums"
               /\ UNCHANGED exit
    /\ UNCHANGED <<fs, cfg, idx, loc, sums1, reps, hist, runs, snap>>
    /\ UNCHANGED <<walk, store, cmp, mp3>>

\* the mutant of WriteSums below: the old manifest is read again after the write
WriteSumsThenLoad ==
    /\ pc = "writesums"
    /\ LET p == pathname(cfg.hashfile, cfg.args[idx])
       IN /\ fs' = [fs EXCEPT ![p] = Text(writesums(cfg.args[idx], sums2))]
          /\ hist' = Append(hist, Event("write", p))
          /\ sums1' = getDictionary(writesums(cfg.args[idx], sums2))
    /\ pc' = "compare"
    /\ UNCHANGED <<cfg, idx, loc, sums2, reps, out, exit, runs, snap>>
    /\ UNCHANGED <<walk, store, cmp, mp3>>

\* analyzeDirs, line 237
WriteSums ==
    /\ pc = "writesums"
    /\ LET p == pathname(cfg.hashfile, cfg.args[idx])
       IN /\ fs' = [fs EXCEPT ![p] = Text(writesums(cfg.args[idx], sums2))]
          /\ hist' = Append(hist, Event("write", p))
    /\ pc' = "compare"
    /\ UNCHANGED <<cfg, idx, loc, sums1, sums2, reps, out, exit, runs, snap>>
    /\ UNCHANGED <<walk, store, cmp, mp3>>

\* analyzeDirs, line 238
CompareSums ==
    /\ pc = "compare"
    /\ LET r == comparemd5dict(sums1, sums2, abspath(cfg.args[1]), out, cfg.quiet,
                               cfg.ignores)
       IN /\ reps' = Append(reps, Sets(r, abspath(cfg.args[1])))
          /\ out' = r.out
    /\ idx' = idx + 1
    /\ pc' = "loop"
    /\ UNCHANGED <<fs, cfg, loc, sums1, sums2, exit, hist, runs, snap>>
    /\ UNCHANGED <<walk, store, cmp, mp3>>

\* a run in the default mode with the default hashfile location
DefaultSnapshot(c) ==
    ~c.help /\ ~c.comparefiles /\ ~c.twodir /\ c.hashfiles = <<>> /\ c.args # <<>>

\* the process is gone; what it held in memory is gone with it
Reap ==
    /\ pc = "exited"
    /\ pc' = "idle"
    /\ snap' = [d \in Dirs |->
                  IF DefaultSnapshot(cfg) /\ \E i \in 1..Len(cfg.args) : cfg.args[i] = d
                  THEN Listing(d) ELSE snap[d]]
    /\ cfg' = Defaults
    /\ idx' = 0
    /\ loc' = Unbound
    /\ sums1' = EmptyDict
    /\ sums2' = EmptyDict
    /\ reps' = <<>>
    /\ out' = <<>>
    /\ exit' = "none"
    /\ hist' = <<>>
    /\ UNCHANGED <<fs, runs>>
    /\ UNCHANGED <<walk, store, cmp, mp3>>

(***************************************************************************)
(* The walker on its own.                                                  *)
(***************************************************************************)
IdleWalk == [stage |-> "idle"]

InitWalk ==
    \E t \in Trees, ig \in IgnoreSets, q \in BOOLEAN :
        walk = [stage |-> "new", tree |-> t, ignores |-> ig, quiet |-> q]

\* masterList(start)
Walk ==
    /\ walk.stage = "new"
    /\ walk' = [walk EXCEPT !.stage = "done"]
                 @@ [r |-> masterList(walk.tree, walk.ignores, walk.quiet, <<>>)]
    /\ UNCHANGED <<store, cmp, mp3, runVars>>

(***************************************************************************)
(* The specifications.                                                     *)
(***************************************************************************)
Init == walk = IdleWalk /\ store = IdleStore /\ cmp = IdleCmp /\ mp3 = IdleMp3 /\ InitRun

Next ==
    \/ Create \/ Modify \/ Delete
    \/ Main
    \/ CompareFiles
    \/ CompareDirs
    \/ AnalyzeDirs \/ Return \/ NotADirectory \/ Load \/ MakeSums \/ WriteSums
    \/ CompareSums
    \/ Reap

Spec == Init /\ [][Next]_vars

InitSpecWalk ==
    InitWalk /\ store = IdleStore /\ cmp = IdleCmp /\ mp3 = IdleMp3 /\ IdleRun

SpecWalk == InitSpecWalk /\ [][Walk]_vars

InitSpecStore ==
    InitStore /\ walk = IdleWalk /\ cmp = IdleCmp /\ mp3 = IdleMp3 /\ IdleRun

SpecStore == InitSpecStore /\ [][WriteOut \/ ReadBack]_vars

InitSpecCmp ==
    InitCmp /\ walk = IdleWalk /\ store = IdleStore /\ mp3 = IdleMp3 /\ IdleRun

SpecCmp == InitSpecCmp /\ [][Compare]_vars

InitSpecMp3 ==
    InitMp3 /\ walk = IdleWalk /\ store = IdleStore /\ cmp = IdleCmp /\ IdleRun

SpecMp3 == InitSpecMp3 /\ [][CalcUID]_vars

(***************************************************************************)
(* The claims.                                                             *)
(***************************************************************************)

\* C1: comparemd5dict(old, new) yields Added = the paths of new not in old,
\* Deleted = the paths of old not in new, Changed = the paths of both whose
\* checksums differ, Unchanged = the paths of both whose checksums are equal;
\* the four sets are pairwise disjoint, their union is the paths of old and
\* new, and the STATUS line (the last line logged, unless quiet) carries
\* their sizes.
C1_FourSets ==
    cmp.stage = "done" =>
      LET old == cmp.d1
          new == cmp.d2
          r   == cmp.r
          both == DOMAIN old \cap DOMAIN new
      IN /\ r.added = DOMAIN new \ DOMAIN old
         /\ r.deleted = DOMAIN old \ DOMAIN new
         /\ r.changed = {p \in both : old[p] # new[p]}
         /\ r.unchanged = {p \in both : old[p] = new[p]}
         /\ r.added \cap r.deleted = {} /\ r.added \cap r.changed = {}
         /\ r.added \cap r.unchanged = {} /\ r.deleted \cap r.changed = {}
         /\ r.deleted \cap r.unchanged = {} /\ r.changed \cap r.unchanged = {}
         /\ r.added \cup r.deleted \cup r.changed \cup r.unchanged
              = DOMAIN old \cup DOMAIN new
         /\ ~cmp.quiet =>
              /\ r.out # <<>>
              /\ r.out[Len(r.out)] =
                   <<"STATUS", Cardinality(r.unchanged), Cardinality(r.added),
                     Cardinality(r.deleted), Cardinality(r.changed)>>

\* a comparison with a path added, one deleted and one changed, and a STATUS line
C1_Witness ==
    /\ cmp.stage = "done"
    /\ ~cmp.quiet
    /\ cmp.r.added = {<<"c">>}
    /\ cmp.r.deleted = {<<"a">>}
    /\ cmp.r.changed = {<<"b">>}
    /\ cmp.r.out[Len(cmp.r.out)] = <<"STATUS", 0, 1, 1, 1>>

\* C7: for every non-empty manifest M (paths without newline, checksums of
\* 32 lowercase hex characters) and every root string, getDictionary of the
\* file writesums wrote for M is M: the same paths, the same checksum for
\* each, and no entry from the #md5dir header.
C7_RoundTrip ==
    (store.stage = "loaded" /\ store.M # EmptyDict) =>
        /\ DOMAIN store.d = DOMAIN store.M
        /\ \A path \in DOMAIN store.M : store.d[path] = store.M[path]

\* C3: in MP3 mode, for a file [10-byte ID3v2 header with body size N][N body
\* bytes][K payload bytes][128-byte block starting with TAG], calculateUID
\* hashes exactly the K payload bytes: from offset 10 + N (10 more with flag
\* bit 0x10) to the file size minus 128.
C3_HashesPayload ==
    (mp3.stage = "done" /\ mp3.v2 /\ mp3.v1) =>
        /\ mp3.r.exc = "none"
        /\ mp3.r.start = 10 + mp3.n + (IF Bit4(mp3.flags) THEN 10 ELSE 0)
        /\ mp3.r.finish = Len(mp3.bytes) - 128
        /\ mp3.r.data = mp3.payload

\* the directories of a tree that are tree[k] or above it
Above(tree, k) ==
    { j \in 1..k : \/ tree[j].root = tree[k].root
                   \/ IsPrefix(tree[j].root \o <<"/">>, tree[k].root) }

\* C4: the list masterList returns holds no file below a directory whose path
\* relative to the root matches an ignore pattern, whatever the file's own
\* path and however deep it lies below that directory.
C4_SubtreePruned ==
    (walk.stage = "done" /\ walk.r.exc = "none") =>
        \A k \in 1..Len(walk.tree) : \A j \in Above(walk.tree, k) :
            ignore(walk.ignores, From(walk.tree[j].root, 2)) =>
                \A i \in 1..Len(walk.tree[k].files) :
                    walk.tree[k].files[i].kind = "file" =>
                        \A n \in 1..Len(walk.r.flist) :
                            walk.r.flist[n] #
                                join(From(walk.tree[k].root, 2),
                                     walk.tree[k].files[i].name)

\* the entry tree[k].files[i] gets as far as the link test of masterList
Met(w, k, i) ==
    /\ ~ignore(w.ignores, w.tree[k].root)
    /\ ~ignore(w.ignores, join(From(w.tree[k].root, 2), w.tree[k].files[i].name))

Count(seq, x) == Cardinality({n \in 1..Len(seq) : seq[n] = x})

Created(s)   == {n \in DOMAIN s : s[n] = Absent /\ Listing(DirD)[n] # Absent}
Removed(s)   == {n \in DOMAIN s : s[n] # Absent /\ Listing(DirD)[n] = Absent}
Rewritten(s) == {n \in DOMAIN s : s[n] # Absent /\ Listing(DirD)[n] # Absent
                                  /\ s[n] # Listing(DirD)[n]}
Untouched(s) == {n \in DOMAIN s : s[n] # Absent /\ s[n] = Listing(DirD)[n]}

\* C2: a snapshot run of a directory D with the default hashfile location
\* ends normally with one comparison reported, and when a snapshot run of D
\* went before it, the comparison's Added, Deleted, Changed and Unchanged
\* are exactly the files created, removed, modified and left untouched
\* between the two runs.
C2_SnapshotDiff ==
    (pc = "exited" /\ DefaultSnapshot(cfg) /\ cfg.args = <<DirD>>) =>
        /\ exit = "0"
        /\ Len(reps) = 1
        /\ snap[DirD] # NoSnap =>
             /\ reps[1].added = Created(snap[DirD])
             /\ reps[1].deleted = Removed(snap[DirD])
             /\ reps[1].changed = Rewritten(snap[DirD])
             /\ reps[1].unchanged = Untouched(snap[DirD])

\* the files of a directory that open and read
Readable(dir) ==
    {n \in DataNames(dir) \cup {Md5sum} :
        fs[abspath(join(dir, n))].t \in {"bytes", "text"}}

\* C5: no file whose open or read fails aborts the run, in default mode and
\* in MP3 mode alike: the run never ends with the IOError, and the manifest
\* makesums returns holds the files that could be read and no other.
C5_UnreadableSkipped ==
    /\ exit # "IOError"
    /\ pc = "writesums" => DOMAIN sums2 = Readable(cfg.args[idx])

\* C6: with n directories and n hashfile paths, directory i's old manifest is
\* read from the i-th hashfile and its fresh manifest is written to the i-th
\* hashfile; the LOCATION line of its comparison names directory i; and after
\* the run each hashfile i holds the fresh manifest of directory i.
C6_HashfilePerDirectory ==
    /\ (pc = "compare" /\ cfg.hashfiles # <<>>) =>
          /\ Len(hist) >= 2
          /\ hist[Len(hist) - 1] = [op |-> "read",
                                    path |-> abspath(cfg.hashfiles[idx]),
                                    before |-> hist[Len(hist)].before]
          /\ hist[Len(hist)].op = "write"
          /\ hist[Len(hist)].path = abspath(cfg.hashfiles[idx])
    /\ (pc = "loop" /\ cfg.hashfiles # <<>> /\ reps # <<>>) =>
          reps[Len(reps)].root = abspath(cfg.args[idx - 1])
    /\ (pc = "exited" /\ exit = "0" /\ ~cfg.help /\ ~cfg.comparefiles /\ ~cfg.twodir
          /\ cfg.hashfiles # <<>>) =>
          \A i \in 1..Len(cfg.args) :
              isdir(cfg.args[i]) =>
                  fs[abspath(cfg.hashfiles[i])] =
                      Text(writesums(cfg.args[i], makesums(cfg.args[i], cfg, <<>>).checksums))

\* the usage errors: no directories; in compare-two-files or two-directory
\* mode, an argument count other than two or an argument that is no file / no
\* directory; in snapshot mode, a hashfile count other than the directory count
UsageError(c) ==
    /\ ~c.help
    /\ \/ c.args = <<>>
       \/ c.comparefiles /\ ~twoFiles(c.args)
       \/ ~c.comparefiles /\ c.twodir /\ ~twoDirs(c.args)
       \/ ~c.comparefiles /\ ~c.twodir /\ c.hashfiles # <<>>
            /\ Len(c.hashfiles) # Len(c.args)

Parsed(c) == IF c.t = "text" THEN getDictionary(c.v) ELSE EmptyDict

\* C10: in snapshot mode the old manifest is read from the hashfile before
\* the fresh one is written to it, and the comparison comes after the write:
\* when the comparison is about to be made, the last two accesses of manifest
\* files are the read and then the write of the same file, the file holds the
\* fresh manifest, and the old manifest in memory is the content the file had
\* just before that write.
C10_ReadBeforeWrite ==
    /\ pc = "writesums" =>
          /\ hist # <<>>
          /\ hist[Len(hist)].op = "read"
          /\ hist[Len(hist)].path = pathname(cfg.hashfile, cfg.args[idx])
          /\ sums1 = Parsed(fs[hist[Len(hist)].path])
    /\ pc = "compare" =>
          /\ Len(hist) >= 2
          /\ hist[Len(hist)].op = "write"
          /\ hist[Len(hist) - 1].op = "read"
          /\ hist[Len(hist) - 1].path = hist[Len(hist)].path
          /\ fs[hist[Len(hist)].path] = Text(writesums(cfg.args[idx], sums2))
          /\ sums1 = Parsed(hist[Len(hist)].before)

\* the second directory's comparison is about to be made: the hashfile held a
\* manifest before the write, the old manifest in memory is that one and
\* differs from the fresh manifest now in the file
C10_Witness ==
    /\ pc = "compare"
    /\ idx = 2
    /\ hist[Len(hist)].op = "write"
    /\ hist[Len(hist)].before.t = "text"
    /\ sums1 = getDictionary(hist[Len(hist)].before.v)
    /\ sums1 # EmptyDict
    /\ sums2 # EmptyDict
    /\ sums1 # sums2
    /\ Parsed(fs[hist[Len(hist)].path]) = sums2

====
